---- MODULE Spec2Model ----
(***************************************************************************)
(* Publish-slot scheduling of the LinkedIn reposter.                       *)
(*                                                                         *)
(* Time is a naive local datetime (the code uses datetime.now()), counted  *)
(* in whole minutes since a Monday 00:00.  The scheduled_posts table is a  *)
(* set of rows; the scheduler settings are fixed at construction.          *)
(***************************************************************************)
EXTENDS Integers, Sequences, FiniteSets, TLC

VARIABLES
    settings,         \* PostScheduler.__init__: the scheduling policy
    now,              \* datetime.now()
    linkedin_posts,   \* linkedin_posts table: id -> original_post_date
    approval_requests, \* approval_requests table: post id -> request
    scheduled_posts,  \* scheduled_posts table: set of rows
    next_id,          \* autoincrement primary key of scheduled_posts
    call,             \* locals and result of the request that returned last
    session,          \* per request session: the rows a running call has read
    unseen,           \* pairs of row ids inserted by calls that overlapped
    classified,       \* result of the last _calculate_priority evaluation
    ticks,            \* how often the clock has advanced
    ops,              \* maintenance and publishing runs so far
    chrome,           \* ChromeLockManager: its lock, its status, the tasks using it
    posting           \* the publishing tasks: their locals, and the reposts made

vars == <<settings, now, linkedin_posts, approval_requests, scheduled_posts, next_id, call,
          session, unseen, classified, ticks, ops, chrome, posting>>

----------------------------------------------------------------------------
(* datetime arithmetic *)

MinutesPerHour == 60 * 1
MinutesPerDay == 24 * MinutesPerHour
None == 0 - 1000000          \* Python None (no datetime is that early)

Day(n) == n * MinutesPerDay
At(d, h, m) == Day(d) + h * MinutesPerHour + m   \* day d (0 = a Monday)

date(dt) == dt \div MinutesPerDay
hour(dt) == (dt % MinutesPerDay) \div MinutesPerHour
minute(dt) == dt % MinutesPerHour
weekday(dt) == date(dt) % 7          \* Monday is 0, Saturday 5, Sunday 6

\* dt.replace(hour=h, minute=0, second=0, microsecond=0)
replace_hour(dt, h) == Day(date(dt)) + h * MinutesPerHour

Max(S) == CHOOSE x \in S : \A y \in S : y <= x
Min(S) == CHOOSE x \in S : \A y \in S : x <= y
Abs(x) == IF x < 0 THEN 0 - x ELSE x

----------------------------------------------------------------------------
(* settings *)

daily_post_limit == settings.daily_post_limit
min_spacing_minutes == settings.min_spacing_minutes
posting_hour_start == settings.posting_hour_start
posting_hour_end == settings.posting_hour_end
posting_weekdays_only == settings.posting_weekdays_only
enable_jitter == settings.enable_jitter
jitter_minutes == settings.jitter_minutes

golden_hour_urgent == 3
golden_hour_good == 12
golden_hour_ok == 24
max_iterations == 365
RetentionDays == 7
RetryDelayMinutes == 30
max_retries == 5
ApprovalDays == 7

----------------------------------------------------------------------------
(* PostScheduler helpers *)

\* mutant: a post without a date is taken to be brand new
calculate_priority_guessing(original_post_date, t) ==
    IF original_post_date = None
    THEN [level |-> "URGENT", age |-> None, priority_score |-> 100]
    ELSE LET age == t - original_post_date IN
         IF age < golden_hour_urgent * MinutesPerHour
         THEN [level |-> "URGENT", age |-> age, priority_score |-> 100]
         ELSE IF age < golden_hour_good * MinutesPerHour
         THEN [level |-> "GOOD", age |-> age, priority_score |-> 75]
         ELSE IF age < golden_hour_ok * MinutesPerHour
         THEN [level |-> "OK", age |-> age, priority_score |-> 50]
         ELSE [level |-> "STALE", age |-> age, priority_score |-> 25]

\* mutant: the thresholds compared with <= instead of <
calculate_priority_inclusive(original_post_date, t) ==
    IF original_post_date = None
    THEN [level |-> "OK", age |-> None, priority_score |-> 50]
    ELSE LET age == t - original_post_date IN
         IF age <= golden_hour_urgent * MinutesPerHour
         THEN [level |-> "URGENT", age |-> age, priority_score |-> 100]
         ELSE IF age <= golden_hour_good * MinutesPerHour
         THEN [level |-> "GOOD", age |-> age, priority_score |-> 75]
         ELSE IF age <= golden_hour_ok * MinutesPerHour
         THEN [level |-> "OK", age |-> age, priority_score |-> 50]
         ELSE [level |-> "STALE", age |-> age, priority_score |-> 25]

\* Age is kept in minutes; the code compares age_hours = seconds / 3600.
_calculate_priority(original_post_date, t) ==
    IF original_post_date = None
    THEN [level |-> "OK", age |-> None, priority_score |-> 50]
    ELSE LET age == t - original_post_date IN
         IF age < golden_hour_urgent * MinutesPerHour
         THEN [level |-> "URGENT", age |-> age, priority_score |-> 100]
         ELSE IF age < golden_hour_good * MinutesPerHour
         THEN [level |-> "GOOD", age |-> age, priority_score |-> 75]
         ELSE IF age < golden_hour_ok * MinutesPerHour
         THEN [level |-> "OK", age |-> age, priority_score |-> 50]
         ELSE [level |-> "STALE", age |-> age, priority_score |-> 25]

\* status in (PENDING, PUBLISHED) and scheduled_for >= now - 7 days
_get_all_scheduled_posts(table, t) ==
    {r \in table : /\ r.status \in {"PENDING", "PUBLISHED"}
                   /\ r.scheduled_for >= t - Day(RetentionDays)}

\* mutant: the end of the window compared with > instead of >=
normalize_end_inclusive(dt) ==
    IF hour(dt) < posting_hour_start
    THEN replace_hour(dt, posting_hour_start)
    ELSE IF hour(dt) > posting_hour_end
    THEN replace_hour(dt + Day(1), posting_hour_start)
    ELSE dt

_normalize_to_posting_hours(dt) ==
    IF hour(dt) < posting_hour_start
    THEN replace_hour(dt, posting_hour_start)
    ELSE IF hour(dt) >= posting_hour_end
    THEN replace_hour(dt + Day(1), posting_hour_start)
    ELSE dt

_move_to_next_weekday(dt) ==
    LET days_ahead == 0 - weekday(dt)
        ahead == IF days_ahead <= 0 THEN days_ahead + 7 ELSE days_ahead
    IN replace_hour(dt + Day(ahead), posting_hour_start)

\* mutant: the time of day is kept instead of reset to posting_hour_start
move_to_next_day_keeping_time(dt) == dt + Day(1)

_move_to_next_day(dt) == replace_hour(dt + Day(1), posting_hour_start)

\* mutant: only PENDING rows are counted
count_pending_on_day(posts, target_date) ==
    Cardinality({r \in posts : /\ date(r.scheduled_for) = target_date
                               /\ r.status = "PENDING"})

_count_posts_on_day(posts, target_date) ==
    Cardinality({r \in posts : date(r.scheduled_for) = target_date})

_get_last_scheduled_time_before(posts, candidate_time) ==
    LET posts_before == {r \in posts : r.scheduled_for < candidate_time}
    IN IF posts_before = {} THEN None
       ELSE Max({r.scheduled_for : r \in posts_before})

\* mutant: STALE seeds at now like every other priority
seed_always_now(level, posts, t) == t

\* lines 104-124: the seed of the search
seed_time(level, posts, t) ==
    IF level = "STALE" /\ posts # {}
    THEN Max({r.scheduled_for : r \in posts}) + min_spacing_minutes
    ELSE t

\* mutant: the loop condition compared with <= instead of <
loop_continues_inclusive(iteration) == iteration <= max_iterations

\* line 130: while iteration < max_iterations
loop_continues(iteration) == iteration < max_iterations

\* mutant: the candidate is pushed by the whole spacing, not by the shortfall
needed_spacing_whole(candidate_time, last_post_time) == min_spacing_minutes

\* lines 155-158: time_diff and the remaining spacing needed
needed_spacing(candidate_time, last_post_time) ==
    LET time_diff == candidate_time - last_post_time
    IN min_spacing_minutes - time_diff

\* lines 131-167: one pass of the search loop on candidate s.time
search_pass(posts, s) ==
    LET c == _normalize_to_posting_hours(s.time)
        last_post_time == _get_last_scheduled_time_before(posts, c)
        moved(t) == [time |-> t, iteration |-> s.iteration + 1, found |-> FALSE]
    IN IF posting_weekdays_only /\ weekday(c) \in {5, 6}
       THEN moved(_move_to_next_weekday(c))
       ELSE IF _count_posts_on_day(posts, date(c)) >= daily_post_limit
       THEN moved(_move_to_next_day(c))
       ELSE IF last_post_time # None /\ c - last_post_time < min_spacing_minutes
       THEN moved(c + needed_spacing(c, last_post_time))
       ELSE [time |-> c, iteration |-> s.iteration + 1, found |-> TRUE]

\* lines 126-170: the search loop, passes repeated until a slot is found or the
\* loop condition fails; `found` is false when the loop ran out.  The passes
\* are composed by halving `passes`, which only keeps the evaluation shallow.
RECURSIVE find_slot(_, _, _)
find_slot(posts, s, passes) ==
    IF s.found \/ ~loop_continues(s.iteration) THEN s
    ELSE IF passes <= 1 THEN search_pass(posts, s)
    ELSE CHOOSE r \in {find_slot(posts, half, passes - passes \div 2) :
                          half \in {find_slot(posts, s, passes \div 2)}} : TRUE

\* random.randint(-jitter_minutes, jitter_minutes) when jitter is enabled
jitter_choices ==
    IF enable_jitter THEN (0 - jitter_minutes)..jitter_minutes ELSE {0}

new_row(id, post_id, priority, scheduled_for) ==
    [id |-> id, post_id |-> post_id, scheduled_for |-> scheduled_for,
     status |-> "PENDING", retry_count |-> 0, published_at |-> None,
     priority_level |-> priority.level, priority_score |-> priority.priority_score,
     post_age |-> priority.age]

NoCall ==
    [op |-> "none", post_id |-> 0, level |-> "OK", at |-> 0, read |-> {},
     seed |-> 0, accepted |-> 0, iteration |-> 0, found |-> TRUE,
     scheduled_for |-> 0, id |-> 0]

\* what a request leaves behind: the locals a of its slot assignment and the
\* table as it found and left it
Returned(op, a, before, after) ==
    [x \in DOMAIN NoCall \cup {"before", "after"} |->
        CASE x = "op" -> op
          [] x = "before" -> before
          [] x = "after" -> after
          [] OTHER -> a[x]]

----------------------------------------------------------------------------
(* bounds of the model *)

MaxScheduled == 4        \* rows ever inserted into scheduled_posts
MaxTicks == 2            \* clock advances per behaviour
MaxOps == 3              \* scrub and reschedule runs per behaviour
MaxRuns == 6             \* publish checks in a row on an unchanged table
AgeMargin == 12          \* minutes sampled on either side of a threshold
Callers == {1, 2}        \* concurrent approval requests

\* overnight, and past the 7-day horizon of the scheduler's query
TickSteps == {14 * MinutesPerHour, Day(RetentionDays + 1)}

Policy(limit, spacing, hstart, hend, weekdays, jitter, jm) ==
    [daily_post_limit |-> limit, min_spacing_minutes |-> spacing,
     posting_hour_start |-> hstart, posting_hour_end |-> hend,
     posting_weekdays_only |-> weekdays, enable_jitter |-> jitter,
     jitter_minutes |-> jm]

\* config.py defaults, jitter switched off
DefaultPolicy == Policy(3, 90, 6, 21, TRUE, FALSE, 15)
\* every day of the week, a shorter window, a smaller cap
DailyPolicy == Policy(2, 120, 9, 17, FALSE, FALSE, 15)

Monday0800 == At(7, 8, 0)
Monday0830 == At(7, 8, 30)
Friday2000 == At(11, 20, 0)

Row(id, post_id, scheduled_for, status, level, score) ==
    [id |-> id, post_id |-> post_id, scheduled_for |-> scheduled_for,
     status |-> status, retry_count |-> 0,
     published_at |-> IF status = "PUBLISHED" THEN scheduled_for ELSE None,
     priority_level |-> level, priority_score |-> score, post_age |-> None]

\* Monday 08:00, 09:30 and 11:00 are taken; the first has gone out
ScenarioBQueue ==
    {Row(1, 1, At(7, 8, 0), "PUBLISHED", "OK", 50),
     Row(2, 2, At(7, 9, 30), "PENDING", "OK", 50),
     Row(3, 3, At(7, 11, 0), "PENDING", "OK", 50)}

\* posts by age at the start: 1 hour, 50 hours, 5 hours
PostsAt(t) ==
    (1 :> (t - 60)) @@ (2 :> (t - 50 * MinutesPerHour))
        @@ (3 :> (t - 5 * MinutesPerHour))

\* a fresh post and one whose publication date is not known
UndatedPosts(t) == (1 :> (t - 60)) @@ (2 :> None)

NotClassified ==
    [date |-> None, at |-> 0,
     result |-> [level |-> "NONE", age |-> None, priority_score |-> 0]]

\* the e-mailed approval requests were sent a day ago and last 7 days
\* (main.py 474-478); none has been answered: what the queue holds was
\* approved from the dashboard
ExpiresIn == Day(ApprovalDays) - Day(1)

IdleSession ==
    [c \in Callers |-> [pc |-> "idle", post_id |-> 0, read |-> {}, at |-> 0, first_id |-> 0]]

\* main.py 216-217, 354-355, 1306-1307, 1495-1496: the tasks that take the
\* Chrome lock, by the locked_by they pass, and the operation they name
ChromeTasks ==
    {"check_and_publish_posts", "scheduled_scrape_and_process",
     "admin_post_now(1)", "admin_post_now(2)", "test_scrape"}

operation(task) ==
    CASE task = "scheduled_scrape_and_process" -> "scraping"
      [] task = "test_scrape" -> "test-scraping"
      [] OTHER -> "posting"

\* chrome_lock.py 11-18: ChromeLockStatus()
ChromeLockStatus(is_locked, op, locked_by) ==
    [is_locked |-> is_locked, operation |-> op, locked_by |-> locked_by]

\* chrome_lock.py 35-38: ChromeLockManager.__init__; no task has called it.
\* locked and queue are the asyncio.Lock: its flag and the futures of the
\* tasks suspended in Lock.acquire, woken when the lock was handed to them
ChromeLockManager ==
    [locked |-> FALSE, queue |-> <<>>,
     status |-> ChromeLockStatus(FALSE, "None", "None"),
     waiters |-> 0,
     pc |-> [t \in ChromeTasks |-> "idle"]]

\* main.py 216-217, 1306-1307: the tasks that publish
PostingTasks ==
    {"check_and_publish_posts", "admin_post_now(1)", "admin_post_now(2)"}

\* no publishing task has started; no reservation has been reposted
IdlePosting ==
    [task |-> [t \in PostingTasks |->
                  [pc |-> "start", due |-> <<>>, i |-> 0, gone |-> FALSE]],
     reposted |-> [id \in 1..(MaxScheduled + 1) |-> 0]]

StartWith(policy, t, queue, posts) ==
    /\ chrome = ChromeLockManager
    /\ posting = IdlePosting
    /\ settings = policy
    /\ now = t
    /\ linkedin_posts = posts
    /\ approval_requests =
           [p \in DOMAIN posts |-> [responded |-> FALSE, expires_at |-> t + ExpiresIn]]
    /\ scheduled_posts = queue
    /\ next_id = Cardinality(queue) + 1
    /\ call = NoCall
    /\ session = IdleSession
    /\ unseen = {}
    /\ classified = NotClassified
    /\ ticks = 0
    /\ ops = 0

Start(policy, t, queue) == StartWith(policy, t, queue, PostsAt(t))

----------------------------------------------------------------------------
(* operations *)

\* the clock moves on
Tick ==
    /\ ticks < MaxTicks
    /\ \E d \in TickSteps : now' = now + d
    /\ ticks' = ticks + 1
    /\ UNCHANGED <<chrome, posting, settings, linkedin_posts, approval_requests,
                   scheduled_posts, next_id, call, session, unseen,
                   classified, ops>>

\* scheduler.py 95-98: the age is logged with format .1f, which None does not
\* support
format_age(age_hours) == IF age_hours = None THEN "TypeError" ELSE "none"

\* scheduler.py 84-98: what assign_publish_slot raises before it reads the
\* queue: ValueError when the post is not found, TypeError when the age of a
\* post without original_post_date is logged
assign_raises(post_id, t) ==
    IF post_id \notin DOMAIN linkedin_posts THEN "ValueError"
    ELSE format_age(_calculate_priority(linkedin_posts[post_id], t).age)

\* what a request that ended with an exception leaves behind
Raised(op, post_id, error, table) ==
    [x \in DOMAIN NoCall \cup {"before", "after", "error"} |->
        CASE x = "op" -> op
          [] x = "post_id" -> post_id
          [] x = "at" -> now
          [] x = "error" -> error
          [] x \in {"before", "after"} -> table
          [] OTHER -> NoCall[x]]

\* scheduler.py 81-215, run on the rows `read` at time t, inserting into `table`
Assigned(post_id, read, t, j) ==
    LET priority == _calculate_priority(linkedin_posts[post_id], t)
        seed == seed_time(priority.level, read, t)
        search == find_slot(read, [time |-> seed, iteration |-> 0, found |-> FALSE],
                            2 * max_iterations)
    IN CHOOSE a \in
         {[op |-> "assign", post_id |-> post_id, level |-> priority.level, at |-> t,
           read |-> read, seed |-> seed, accepted |-> slot.time,
           iteration |-> slot.iteration, found |-> slot.found,
           scheduled_for |-> slot.time + j, id |-> next_id,
           row |-> new_row(next_id, post_id, priority, slot.time + j)] :
          slot \in {search}} : TRUE

\* PostScheduler.assign_publish_slot as one uninterrupted call; the clock has
\* moved on when the next call reads it
assign_publish_slot(post_id) ==
    \/ /\ assign_raises(post_id, now) = "none"
       /\ next_id <= MaxScheduled
       /\ \E j \in jitter_choices :
            \E a \in {Assigned(post_id, _get_all_scheduled_posts(scheduled_posts, now),
                                now, j)} :
               /\ scheduled_posts' = scheduled_posts \cup {a.row}
               /\ call' = Returned("assign", a, scheduled_posts, scheduled_posts')
       /\ next_id' = next_id + 1
       /\ now' = now + 1
       /\ UNCHANGED <<chrome, posting, settings, linkedin_posts, approval_requests, session,
                      unseen, classified, ticks, ops>>
    \/ /\ assign_raises(post_id, now) # "none"
       /\ call' = Raised("assign_raised", post_id, assign_raises(post_id, now),
                         scheduled_posts)
       /\ UNCHANGED <<chrome, posting, settings, now, linkedin_posts, approval_requests,
                      scheduled_posts, next_id, session, unseen, classified,
                      ticks, ops>>

----------------------------------------------------------------------------
(* sequential slot assignment *)

InitAssign ==
    \/ Start(DefaultPolicy, Monday0800, {})
    \/ Start(DefaultPolicy, Monday0830, ScenarioBQueue)
    \/ Start(DefaultPolicy, Friday2000, {})
    \/ Start(DailyPolicy, Friday2000, {})

NextAssign ==
    \/ \E p \in DOMAIN linkedin_posts : assign_publish_slot(p)
    \/ Tick

SpecAssign == InitAssign /\ [][NextAssign]_vars

----------------------------------------------------------------------------
(* properties of slot assignment *)

\* the rows the scheduler's query returns now
Active == _get_all_scheduled_posts(scheduled_posts, now)

AssignReturned == call.op = "assign" /\ ~enable_jitter
CeilingNotReached == call.iteration < max_iterations

InWindow(t) == posting_hour_start <= hour(t) /\ hour(t) < posting_hour_end
AllowedDay(t) == posting_weekdays_only => weekday(t) \notin {5, 6}
OnDate(rows, d) == {r \in rows : r.scheduled_for \div MinutesPerDay = d}
Earlier(rows, t) == {r \in rows : r.scheduled_for < t}
SpacedAfterPredecessor(rows, t) ==
    \A r \in Earlier(rows, t) :
        (\A q \in Earlier(rows, t) : q.scheduled_for <= r.scheduled_for)
            => t - r.scheduled_for >= min_spacing_minutes
ValidSlot(rows, t) ==
    /\ InWindow(t)
    /\ AllowedDay(t)
    /\ Cardinality(OnDate(rows, date(t))) < daily_post_limit
    /\ SpacedAfterPredecessor(rows, t)

PairwiseSpaced(rows) ==
    \A a, b \in rows :
        a.id # b.id => Abs(a.scheduled_for - b.scheduled_for) >= min_spacing_minutes

\* C1: when the rows the call read were pairwise min_spacing_minutes apart, the
\* new reservation is min_spacing_minutes away from every one of them, the
\* later ones and one at the same instant included.
C1_SpacingAfterAssign ==
    (AssignReturned /\ PairwiseSpaced(call.read)) =>
        \A r \in call.read :
            Abs(call.scheduled_for - r.scheduled_for) >= min_spacing_minutes

\* C2: the new reservation never lands on a date that already held
\* daily_post_limit active reservations, and no date holds more than
\* daily_post_limit active reservations after sequential assignments.
C2_DailyCap ==
    /\ (AssignReturned /\ CeilingNotReached) =>
           Cardinality(OnDate(call.read, date(call.scheduled_for))) < daily_post_limit
    /\ ~enable_jitter =>
           \A r \in Active :
               Cardinality(OnDate(Active, date(r.scheduled_for))) <= daily_post_limit

\* the day of the seed was full and the reservation went to a later date
C2_Witness ==
    /\ AssignReturned /\ CeilingNotReached
    /\ Cardinality(OnDate(call.read, date(call.seed))) >= daily_post_limit
    /\ date(call.scheduled_for) > date(call.seed)
    /\ \E r \in Active : Cardinality(OnDate(Active, date(r.scheduled_for))) = daily_post_limit

\* C4: the assigned slot lies in the posting-hour window and, under
\* weekdays-only, on Monday to Friday; a seed that lands on a weekend is moved
\* to the following Monday at posting_hour_start:00 (and stays there when the
\* queue read is empty).
FollowingMonday(t) == (date(t) + (7 - weekday(t))) * MinutesPerDay
                          + posting_hour_start * MinutesPerHour
LandsOnWeekend(t) ==
    /\ posting_weekdays_only
    /\ IF hour(t) >= posting_hour_end
       THEN weekday(t + MinutesPerDay) \in {5, 6}
       ELSE weekday(t) \in {5, 6}
WeekendTarget(t) ==
    IF hour(t) >= posting_hour_end THEN FollowingMonday(t + MinutesPerDay)
    ELSE FollowingMonday(t)

C4_AllowedCalendar ==
    (AssignReturned /\ CeilingNotReached) =>
        /\ InWindow(call.scheduled_for)
        /\ AllowedDay(call.scheduled_for)
        /\ LandsOnWeekend(call.seed) =>
               /\ call.scheduled_for >= WeekendTarget(call.seed)
               /\ call.read = {} => call.scheduled_for = WeekendTarget(call.seed)

\* Scenario C: the seed is normalized to Saturday 06:00 and the slot is Monday 06:00
C4_Witness ==
    /\ AssignReturned /\ CeilingNotReached
    /\ settings = DefaultPolicy
    /\ \/ /\ call.seed = Friday2000 + 14 * MinutesPerHour + 1   \* Saturday 10:01
          /\ call.read = {}
       \/ /\ hour(call.seed) >= posting_hour_end /\ weekday(call.seed) = 4
    /\ call.scheduled_for = At(14, 6, 0)

\* the accepted time is the earliest valid time at or after the seed
EarliestFromSeed ==
    /\ call.scheduled_for = call.accepted
    /\ call.accepted >= call.seed
    /\ ValidSlot(call.read, call.accepted)
    /\ \A t \in call.seed..(call.accepted - 1) : ~ValidSlot(call.read, t)

C6_WitnessScenarioA ==
    /\ AssignReturned
    /\ settings = DefaultPolicy
    /\ call.read = {} /\ call.at = Monday0800 /\ call.level = "URGENT"
    /\ call.scheduled_for = Monday0800

\* C9: a STALE reservation is placed min_spacing_minutes or more after the
\* latest active reservation (not before now when there is none); in Scenario B
\* it lands on Tuesday 06:00.
C9_StaleBackOfQueue ==
    (AssignReturned /\ call.level = "STALE") =>
        /\ \A r \in call.read :
               call.scheduled_for >= r.scheduled_for + min_spacing_minutes
        /\ call.read = {} => call.scheduled_for >= call.at
        /\ (call.read = ScenarioBQueue /\ settings = DefaultPolicy) =>
               call.scheduled_for = At(8, 6, 0)

C9_Witness ==
    /\ AssignReturned /\ call.level = "STALE"
    /\ call.read = ScenarioBQueue /\ settings = DefaultPolicy
    /\ call.scheduled_for = At(8, 6, 0)

----------------------------------------------------------------------------
(* the priority classifier on its own *)

Thresholds == {golden_hour_urgent, golden_hour_good, golden_hour_ok}

\* ages in minutes: around every threshold, brand new, in the future, very old
SampleAges ==
    UNION {(h * MinutesPerHour - AgeMargin)..(h * MinutesPerHour + AgeMargin) :
               h \in Thresholds}
    \cup {0 - 60, 0, 1, 174, 186, 714, 726, 1446, 50 * MinutesPerHour}

InitPriority ==
    /\ \E age \in SampleAges \cup {None} :
           StartWith(DefaultPolicy, Monday0800, {},
                     1 :> IF age = None THEN None ELSE Monday0800 - age)

\* _calculate_priority(original_post) at datetime.now()
Classify ==
    /\ classified = NotClassified
    /\ classified' = [date |-> linkedin_posts[1], at |-> now,
                      result |-> _calculate_priority(linkedin_posts[1], now)]
    /\ UNCHANGED <<chrome, posting, settings, now, linkedin_posts, approval_requests,
                   scheduled_posts, next_id, call, session, unseen, ticks,
                   ops>>

NextPriority == Classify \/ Tick

SpecPriority == InitPriority /\ [][NextPriority]_vars

Classified == classified.result.level # "NONE"
AgeMinutes == classified.at - classified.date
ScoreOf(level) ==
    CASE level = "URGENT" -> 100
      [] level = "GOOD" -> 75
      [] level = "OK" -> 50
      [] level = "STALE" -> 25

AtThreshold(h) == Classified /\ classified.date # None /\ AgeMinutes = h * 60

\* C8 as claimed: an age exactly at a threshold takes the more urgent tier
C8_TiesMoreUrgent ==
    /\ AtThreshold(3) => classified.result.level = "URGENT"
    /\ AtThreshold(12) => classified.result.level = "GOOD"
    /\ AtThreshold(24) => classified.result.level = "OK"

\* C8 amended: an age exactly at a threshold takes the less urgent tier
C8_TiesLessUrgent ==
    /\ AtThreshold(3) => classified.result.level = "GOOD"
    /\ AtThreshold(12) => classified.result.level = "OK"
    /\ AtThreshold(24) => classified.result.level = "STALE"

C8_Witness == AtThreshold(12) /\ classified.result.priority_score = 50

----------------------------------------------------------------------------
(* slot assignment under policies no slot can satisfy *)

NoPostsPolicy == Policy(0, 90, 6, 21, FALSE, FALSE, 15)          \* cap 0
NoPostsWeekdaysPolicy == Policy(0, 90, 6, 21, TRUE, FALSE, 15)  \* cap 0, weekdays
EmptyWindowPolicy == Policy(3, 90, 6, 6, TRUE, FALSE, 15)        \* hours [6,6)
InvertedWindowPolicy == Policy(3, 90, 21, 6, TRUE, FALSE, 15)    \* hours [21,6)

InitDegenerate ==
    \/ \E policy \in {NoPostsPolicy, EmptyWindowPolicy, InvertedWindowPolicy} :
           StartWith(policy, Monday0800, {},
                     (1 :> None) @@ (2 :> (Monday0800 - Day(3))))
    \/ StartWith(NoPostsWeekdaysPolicy, Friday2000, {},
                 (1 :> None) @@ (2 :> (Friday2000 - Day(3))))

NextDegenerate ==
    \/ \E p \in DOMAIN linkedin_posts : assign_publish_slot(p)
    \/ Tick

SpecDegenerate == InitDegenerate /\ [][NextDegenerate]_vars

\* C10: the search makes at most 365 passes; when it runs out it keeps the last
\* candidate (365 days on under a cap of 0), and the call inserts exactly one
\* PENDING reservation at the resulting time.
C10_SearchTerminates ==
    call.op = "assign" =>
        /\ call.iteration <= 365
        /\ call.found \/ call.iteration = 365
        /\ (daily_post_limit = 0 /\ ~posting_weekdays_only) =>
               /\ ~call.found
               /\ call.accepted \div MinutesPerDay =
                      (call.seed \div MinutesPerDay) + 365
                          + (IF hour(call.seed) >= posting_hour_end THEN 1 ELSE 0)
               /\ hour(call.accepted) = posting_hour_start /\ minute(call.accepted) = 0
        /\ Abs(call.scheduled_for - call.accepted) <=
               (IF enable_jitter THEN jitter_minutes ELSE 0)
        /\ Cardinality({r \in scheduled_posts : r.id = call.id}) = 1
        /\ \A r \in scheduled_posts :
               r.id = call.id => /\ r.status = "PENDING"
                                 /\ r.scheduled_for = call.scheduled_for
                                 /\ r \notin call.read
        /\ Cardinality(scheduled_posts) = next_id - 1

\* the ceiling was hit and a reservation was still inserted
C10_Witness ==
    /\ call.op = "assign" /\ ~call.found /\ call.iteration = 365
    /\ daily_post_limit = 0
    /\ \E r \in scheduled_posts : r.id = call.id /\ r.status = "PENDING"

----------------------------------------------------------------------------
(* overlapping approvals: approve_webhook calls assign_publish_slot, which  *)
(* awaits the SELECT of scheduler.py 101 and the commit of scheduler.py 191 *)

\* scheduler.py 84-124: request c has read the post and the table
assign_read(c, post_id) ==
    /\ session[c].pc = "idle"
    /\ assign_raises(post_id, now) = "none"
    /\ \A d \in Callers : session[d].pc = "read" => session[d].post_id # post_id
    /\ Cardinality(scheduled_posts)
           + Cardinality({d \in Callers : session[d].pc = "read"}) < MaxScheduled
    /\ session' = [session EXCEPT ![c] =
                     [pc |-> "read", post_id |-> post_id,
                      read |-> _get_all_scheduled_posts(scheduled_posts, now),
                      at |-> now, first_id |-> next_id]]
    /\ UNCHANGED <<chrome, posting, settings, now, linkedin_posts, approval_requests,
                   scheduled_posts, next_id, call, unseen, classified, ticks,
                   ops>>

\* scheduler.py 126-192: request c searches on what it read, inserts and commits
assign_commit(c) ==
    /\ session[c].pc = "read"
    /\ \E j \in jitter_choices :
         \E a \in {Assigned(session[c].post_id, session[c].read, session[c].at, j)} :
            /\ scheduled_posts' = scheduled_posts \cup {a.row}
            /\ call' = [x \in DOMAIN NoCall |-> a[x]]
    /\ unseen' = unseen \cup
           {{r.id, next_id} : r \in {q \in scheduled_posts : q.id >= session[c].first_id}}
    /\ next_id' = next_id + 1
    /\ session' = [session EXCEPT ![c] = IdleSession[c]]
    /\ UNCHANGED <<chrome, posting, settings, now, linkedin_posts, approval_requests,
                   classified, ticks, ops>>

InitRace ==
    \/ Start(DefaultPolicy, Monday0800, {})
    \/ Start(DefaultPolicy, Monday0830, ScenarioBQueue)
    \/ Start(DailyPolicy, Friday2000, {})

NextRace ==
    \/ \E c \in Callers : \E p \in DOMAIN linkedin_posts : assign_read(c, p)
    \/ \E c \in Callers : assign_commit(c)
    \/ Tick

SpecRace == InitRace /\ [][NextRace]_vars

\* C3: two reservations inserted by overlapping assign_publish_slot calls for
\* different posts are min_spacing_minutes or more apart.
C3_ConcurrentApprovalsSpaced ==
    ~enable_jitter =>
        \A a, b \in scheduled_posts :
            ({a.id, b.id} \in unseen /\ a.id # b.id /\ a.post_id # b.post_id) =>
                Abs(a.scheduled_for - b.scheduled_for) >= min_spacing_minutes

----------------------------------------------------------------------------
(* queue maintenance, publishing and manual rescheduling *)

Pending(table) == {r \in table : r.status = "PENDING"}

\* the rows as a list, in every possible order
Listings(rows) ==
    {o \in [1..Cardinality(rows) -> rows] :
        \A i, k \in DOMAIN o : i # k => o[i] # o[k]}

\* main.py 1663: ORDER BY scheduled_for (rows that tie come back in an order
\* the query does not fix)
ordered_by_scheduled_for(rows) ==
    {o \in Listings(rows) :
        \A i, k \in DOMAIN o : i < k => o[i].scheduled_for <= o[k].scheduled_for}

\* main.py 1705: priority_order
priority_order(level) ==
    CASE level = "URGENT" -> 0
      [] level = "GOOD" -> 1
      [] level = "OK" -> 2
      [] level = "STALE" -> 3
      [] OTHER -> 4

\* sorts by time alone
sort_key_time_only(a, b) == a.scheduled_for < b.scheduled_for

\* main.py 1706: sort key (priority rank, scheduled_for)
sort_key_less(a, b) ==
    \/ priority_order(a.priority_level) < priority_order(b.priority_level)
    \/ /\ priority_order(a.priority_level) = priority_order(b.priority_level)
       /\ a.scheduled_for < b.scheduled_for

\* main.py 1706: scheduled_posts.sort(key=...)
sorted_by_priority(rows) ==
    {o \in Listings(rows) :
        \A i, k \in DOMAIN o : i < k => ~sort_key_less(o[k], o[i])}

\* keeps the row inserted first instead of the row scheduled first
duplicates_by_insertion(o) ==
    {o[i] : i \in {k \in DOMAIN o :
                     \E m \in DOMAIN o : o[m].post_id = o[k].post_id /\ o[m].id < o[k].id}}

\* main.py 1673-1682: the rows whose post_id was seen earlier in the order
duplicates_to_delete(o) ==
    {o[i] : i \in {k \in DOMAIN o : \E m \in 1..(k - 1) : o[m].post_id = o[k].post_id}}

\* main.py 1722-1736: the next valid slot at or after current_time
scrub_slot(current_time) ==
    IF posting_weekdays_only /\ weekday(current_time) \in {5, 6}
    THEN _normalize_to_posting_hours(_move_to_next_weekday(current_time))
    ELSE _normalize_to_posting_hours(current_time)

\* main.py 1719-1749: rows o[i..] rescheduled from current_time on
RECURSIVE reflow(_, _, _)
reflow(o, i, current_time) ==
    IF i > Len(o) THEN {}
    ELSE {[o[i] EXCEPT !.scheduled_for = slot] : slot \in {scrub_slot(current_time)}}
         \cup UNION {reflow(o, i + 1, slot + min_spacing_minutes) :
                       slot \in {scrub_slot(current_time)}}

\* mutant: the reflow starts at the earliest scheduled time, past or not
start_at_earliest(earliest_time, t) == earliest_time

\* main.py 1715: start_time = max(earliest_time, datetime.now())
start_time(earliest_time, t) == IF earliest_time > t THEN earliest_time ELSE t

\* main.py 1648-1752: the tables scrub_schedule_internal may leave, run at time t
scrubbed(table, t) ==
    IF Pending(table) = {} THEN {table}
    ELSE UNION {
           LET kept == Pending(table) \ duplicates_to_delete(o1)
               earliest_time == Min({r.scheduled_for : r \in kept})
           IN {(table \ Pending(table))
                 \cup reflow(o, 1, _normalize_to_posting_hours(
                                      start_time(earliest_time, t))) :
               o \in sorted_by_priority(kept)} :
           o1 \in ordered_by_scheduled_for(Pending(table))}

\* main.py 1755-1762: POST /admin/scrub-schedule; the clock has moved on when
\* the next request reads it
scrub_schedule_internal ==
    /\ ops < MaxOps
    /\ ops' = ops + 1
    /\ Pending(scheduled_posts) # {}
    /\ scheduled_posts' \in scrubbed(scheduled_posts, now)
    /\ call' = [op |-> "scrub", at |-> now, before |-> scheduled_posts,
                after |-> scheduled_posts',
                \* the table is as the scrub before this one left it
                again |-> call.op = "scrub" /\ call.after = scheduled_posts,
                elapsed |-> IF call.op = "scrub" THEN now - call.at ELSE 0]
    /\ now' = now + 1
    /\ UNCHANGED <<chrome, posting, settings, linkedin_posts, approval_requests, next_id,
                   session, unseen, classified, ticks>>

\* main.py 1059-1106: approval from the dashboard, assign_publish_slot and
\* then scrub_schedule_internal in one request; the scrub reads the clock after
\* the assignment has read it
admin_approve_variant(post_id) ==
    /\ post_id \in DOMAIN linkedin_posts
    /\ \/ /\ assign_raises(post_id, now) = "none"
          /\ next_id <= MaxScheduled
          /\ \E j \in jitter_choices :
               \E a \in {Assigned(post_id,
                                   _get_all_scheduled_posts(scheduled_posts, now),
                                   now, j)} :
                  /\ scheduled_posts' \in scrubbed(scheduled_posts \cup {a.row}, now + 1)
                  /\ call' = Returned("admin_approve", a, scheduled_posts,
                                      scheduled_posts')
          /\ next_id' = next_id + 1
          /\ now' = now + 2
          /\ UNCHANGED <<chrome, posting, settings, linkedin_posts, approval_requests, session,
                         unseen, classified, ticks, ops>>
       \* the exception leaves the handler and get_db rolls the request back
       \/ /\ assign_raises(post_id, now) # "none"
          /\ call' = Raised("admin_approve_raised", post_id,
                            assign_raises(post_id, now), scheduled_posts)
          /\ UNCHANGED <<chrome, posting, settings, now, linkedin_posts, approval_requests,
                         scheduled_posts, next_id, session, unseen, classified,
                         ticks, ops>>

\* main.py 1990-2098: approval by the link of the e-mail; the request is
\* answered once and only before it expires, and no scrub follows
approve_webhook(post_id) ==
    /\ post_id \in DOMAIN approval_requests
    /\ ~approval_requests[post_id].responded
    /\ ~(now > approval_requests[post_id].expires_at)
    \* main.py 2040-2070: the answer is committed before the slot is assigned
    /\ approval_requests' =
           [approval_requests EXCEPT ![post_id].responded = TRUE]
    /\ \/ /\ assign_raises(post_id, now) = "none"
          /\ next_id <= MaxScheduled
          /\ \E j \in jitter_choices :
               \E a \in {Assigned(post_id,
                                   _get_all_scheduled_posts(scheduled_posts, now),
                                   now, j)} :
                  /\ scheduled_posts' = scheduled_posts \cup {a.row}
                  /\ call' = Returned("approve_webhook", a, scheduled_posts,
                                      scheduled_posts')
          /\ next_id' = next_id + 1
          /\ now' = now + 1
          /\ UNCHANGED <<chrome, posting, settings, linkedin_posts, session, unseen, classified,
                         ticks, ops>>
       \/ /\ assign_raises(post_id, now) # "none"
          /\ call' = Raised("approve_webhook_raised", post_id,
                            assign_raises(post_id, now), scheduled_posts)
          /\ UNCHANGED <<chrome, posting, settings, now, linkedin_posts, scheduled_posts, next_id,
                         session, unseen, classified, ticks, ops>>

\* mutant: PostStatus with the members main.py 108 and 185 refer to
PostStatusComplete ==
    {"SCRAPED", "VARIANTS_GENERATED", "AWAITING_APPROVAL", "APPROVED",
     "REJECTED", "POSTING", "POSTED", "MISSING", "FAILED"}

\* models.py 14-22: the members of PostStatus
PostStatus ==
    {"SCRAPED", "VARIANTS_GENERATED", "AWAITING_APPROVAL", "APPROVED",
     "REJECTED", "POSTED", "FAILED"}

\* main.py 177-198: the except handler of a publish attempt. It names
\* PostStatus.FAILED at the ceiling and PostStatus.MISSING below it; naming a
\* status that is no member raises out of the handler, before its commit.
\* row: the reservation as stored afterwards; escaped: an exception left
\* _publish_single_scheduled_post
publish_failed(scheduled_post) ==
    LET retry_count == scheduled_post.retry_count + 1
        status == IF retry_count >= 5 THEN "FAILED" ELSE "MISSING"
    IN IF status \notin PostStatus
       THEN [row |-> scheduled_post, escaped |-> TRUE]
       ELSE [row |-> [scheduled_post EXCEPT
                         !.retry_count = retry_count,
                         !.status = IF retry_count >= max_retries
                                    THEN "FAILED" ELSE @,
                         !.scheduled_for = IF retry_count >= max_retries
                                           THEN @ ELSE now + RetryDelayMinutes],
             escaped |-> FALSE]

\* main.py 85-198: one publish attempt. The post and its variant are found;
\* post.status = PostStatus.POSTING (main.py 108) comes before the publisher is
\* called, and POSTING is no member of PostStatus, so the attempt continues in
\* the except handler.
_publish_single_scheduled_post(scheduled_post) ==
    IF "POSTING" \notin PostStatus
    THEN publish_failed(scheduled_post)
    ELSE [row |-> [scheduled_post EXCEPT !.status = "PUBLISHED",
                                         !.published_at = now],
          escaped |-> FALSE]

\* main.py 259-272: the loop over the due rows o[i..], ended by the first
\* exception; what is not committed by then is lost with the session
RECURSIVE publish_each(_, _, _)
publish_each(o, i, done) ==
    IF i > Len(o) THEN done
    ELSE LET result == _publish_single_scheduled_post(o[i])
             next == [table |-> (done.table \ {o[i]}) \cup {result.row},
                      attempted |-> done.attempted \cup {o[i].id},
                      order |-> Append(done.order, o[i].id),
                      escaped |-> result.escaped]
         IN IF result.escaped THEN next ELSE publish_each(o, i + 1, next)

\* the loop has not started
NothingDone(table) ==
    [table |-> table, attempted |-> {}, order |-> <<>>, escaped |-> FALSE]

\* what a publish run leaves behind: who ran it, the rows it selected and the
\* ids it attempted, as a set and in the order of the attempts
Published(by, t, due, before, done, run) ==
    [op |-> "publish", by |-> by, at |-> t, before |-> before,
     after |-> done.table, due |-> due, attempted |-> done.attempted,
     order |-> done.order, escaped |-> done.escaped, run |-> run]

\* mutant: every PENDING row is selected, due or not
due_posts_all_pending(table, t) == Pending(table)

\* main.py 226-241: the rows a publish check finds due at time t
due_posts(table, t) == {r \in Pending(table) : r.scheduled_for <= t}

\* main.py 201-295: check_and_publish_posts, run by the timer. run: how many
\* checks in a row, this one included, have found this table and left it as
\* it was
check_and_publish_posts ==
    /\ due_posts(scheduled_posts, now) # {}
    /\ (call.op = "publish" /\ call.after = scheduled_posts) => call.run < MaxRuns
    /\ \E o \in ordered_by_scheduled_for(due_posts(scheduled_posts, now)) :
         \E done \in {publish_each(o, 1, NothingDone(scheduled_posts))} :
            /\ scheduled_posts' = done.table
            /\ call' = Published("check_and_publish_posts", now,
                                 {r.id : r \in due_posts(scheduled_posts, now)},
                                 scheduled_posts, done,
                                 IF /\ call.op = "publish"
                                    /\ call.after = scheduled_posts
                                    /\ call.attempted = done.attempted
                                    /\ done.table = scheduled_posts
                                 THEN call.run + 1 ELSE 1)
    /\ UNCHANGED <<chrome, posting, settings, now, linkedin_posts, approval_requests, next_id,
                   session, unseen, classified, ticks, ops>>

\* main.py 1297-1364: POST /admin/scheduled/{id}/post-now
admin_post_now(scheduled_post_id) ==
    /\ ops < MaxOps
    /\ ops' = ops + 1
    /\ \E r \in Pending(scheduled_posts) :
         /\ r.id = scheduled_post_id
         /\ \E done \in {publish_each(<<r>>, 1, NothingDone(scheduled_posts))} :
              /\ scheduled_posts' = done.table
              /\ call' = Published("admin_post_now", now, {r.id}, scheduled_posts,
                                   done, 1)
    /\ UNCHANGED <<chrome, posting, settings, now, linkedin_posts, approval_requests, next_id,
                   session, unseen, classified, ticks>>

\* times an operator may ask for: half past nine and noon today, and tomorrow
\* late in the evening
reschedule_times ==
    {At(date(now), 9, 30), At(date(now), 12, 0), At(date(now) + 1, 22, 0)}

\* the row of the table with that primary key: scalar_one_or_none()
scalar_one_or_none(table, id) == {r \in table : r.id = id}

\* what a manual override returns: the error, if any, and the table it leaves
Overridden(error, table) == [error |-> error, table |-> table]

\* main.py 3417, 3486: the status in which the endpoints refuse an override
never_published(scheduled_post) == FALSE
already_published(scheduled_post) == scheduled_post.status = "PUBLISHED"

\* main.py 3387-3446: POST /schedule/{schedule_id}/reschedule at time t;
\* HTTP 404 is "not_found", HTTP 400 "invalid_state" or "invalid_time"
reschedule_endpoint(table, schedule_id, new_time, t) ==
    IF scalar_one_or_none(table, schedule_id) = {}
    THEN Overridden("not_found", table)
    ELSE LET scheduled_post == CHOOSE r \in scalar_one_or_none(table, schedule_id) : TRUE
         IN IF already_published(scheduled_post) THEN Overridden("invalid_state", table)
            ELSE IF new_time <= t THEN Overridden("invalid_time", table)
            ELSE Overridden("none",
                     (table \ {scheduled_post})
                         \cup {[scheduled_post EXCEPT !.scheduled_for = new_time]})

\* main.py 3459-3510: DELETE /schedule/{schedule_id}
cancel_endpoint(table, schedule_id) ==
    IF scalar_one_or_none(table, schedule_id) = {}
    THEN Overridden("not_found", table)
    ELSE LET scheduled_post == CHOOSE r \in scalar_one_or_none(table, schedule_id) : TRUE
         IN IF already_published(scheduled_post) THEN Overridden("invalid_state", table)
            ELSE Overridden("none",
                     (table \ {scheduled_post})
                         \cup {[scheduled_post EXCEPT !.status = "CANCELLED"]})

\* scheduler.py 408-454: PostScheduler.reschedule_post; the ValueError says
\* either that the row was not found or that its status forbids the change
reschedule_method(table, scheduled_post_id, new_time) ==
    IF scalar_one_or_none(table, scheduled_post_id) = {}
    THEN Overridden("not_found", table)
    ELSE LET scheduled_post == CHOOSE r \in scalar_one_or_none(table, scheduled_post_id) : TRUE
         IN IF scheduled_post.status # "PENDING" THEN Overridden("invalid_state", table)
            ELSE Overridden("none",
                     (table \ {scheduled_post})
                         \cup {[scheduled_post EXCEPT !.scheduled_for = new_time]})

\* scheduler.py 456-492: PostScheduler.cancel_scheduled_post
cancel_method(table, scheduled_post_id) ==
    IF scalar_one_or_none(table, scheduled_post_id) = {}
    THEN Overridden("not_found", table)
    ELSE LET scheduled_post == CHOOSE r \in scalar_one_or_none(table, scheduled_post_id) : TRUE
         IN IF scheduled_post.status # "PENDING" THEN Overridden("invalid_state", table)
            ELSE Overridden("none",
                     (table \ {scheduled_post})
                         \cup {[scheduled_post EXCEPT !.status = "CANCELLED"]})

\* main.py 3387-3446: the reschedule requests the endpoint accepts
reschedule_post(schedule_id, new_time) ==
    /\ ops < MaxOps
    /\ ops' = ops + 1
    /\ \E done \in {reschedule_endpoint(scheduled_posts, schedule_id, new_time, now)} :
         /\ done.error = "none"
         /\ scheduled_posts' = done.table
    /\ UNCHANGED <<chrome, posting, settings, now, linkedin_posts, approval_requests, next_id,
                   call, session, unseen, classified, ticks>>

Friday1800 == At(11, 18, 0)

\* Friday 16:30, 18:00 and 19:30 are taken; the first has gone out
FridayQueue ==
    {Row(1, 1, At(11, 16, 30), "PUBLISHED", "OK", 50),
     Row(2, 2, At(11, 18, 0), "PENDING", "STALE", 10),
     Row(3, 3, At(11, 19, 30), "PENDING", "URGENT", 100)}

\* the service running with reservations already in its queue
Init ==
    \/ Start(DefaultPolicy, Monday0830, ScenarioBQueue)
    \/ Start(DefaultPolicy, Friday1800, FridayQueue)

Next ==
    \/ \E p \in DOMAIN linkedin_posts : approve_webhook(p)
    \/ \E p \in DOMAIN linkedin_posts : admin_approve_variant(p)
    \/ scrub_schedule_internal
    \/ check_and_publish_posts
    \/ \E r \in scheduled_posts : \E t \in reschedule_times : reschedule_post(r.id, t)
    \/ Tick

Spec == Init /\ [][Next]_vars

\* C5: every PENDING reservation lies in the posting-hour window and, under
\* weekdays-only, on Monday to Friday, whatever operations have run.
C5_PendingOnCalendar ==
    ~enable_jitter =>
        \A r \in scheduled_posts :
            r.status = "PENDING" =>
                InWindow(r.scheduled_for) /\ AllowedDay(r.scheduled_for)

----------------------------------------------------------------------------
(* approvals through both paths *)

\* a fresh post and one of 13 hours, past its best
TwoPosts(t) == (1 :> (t - 60)) @@ (2 :> (t - 13 * MinutesPerHour))

InitApprove ==
    \/ StartWith(DefaultPolicy, Monday0800, {}, TwoPosts(Monday0800))
    \/ StartWith(DefaultPolicy, Monday0800, {}, UndatedPosts(Monday0800))

NextApprove ==
    \/ \E p \in DOMAIN linkedin_posts : approve_webhook(p)
    \/ \E p \in DOMAIN linkedin_posts : admin_approve_variant(p)
    \/ scrub_schedule_internal
    \/ check_and_publish_posts
    \/ Tick

SpecApprove == InitApprove /\ [][NextApprove]_vars

\* a reservation that still stands for its content item
Live(r) == r.status \notin {"CANCELLED", "PUBLISHED"}

\* C11: no content item ever has two reservations that are neither CANCELLED
\* nor PUBLISHED.
C11_UniqueLiveReservation ==
    \A a, b \in scheduled_posts :
        (a.post_id = b.post_id /\ Live(a) /\ Live(b)) => a.id = b.id

----------------------------------------------------------------------------
(* the scrub *)

\* three slots of 90 minutes fit into the window [9, 13): 09:00, 10:30, 12:00
TightPolicy == Policy(3, 90, 9, 13, FALSE, FALSE, 15)

Monday0905 == At(7, 9, 5)

\* Monday 09:00 has gone out, 10:30 and 12:00 wait, Tuesday 09:00 is taken
TightQueue ==
    {Row(1, 1, At(7, 9, 0), "PUBLISHED", "OK", 50),
     Row(2, 2, At(7, 10, 30), "PENDING", "OK", 50),
     Row(3, 3, At(7, 12, 0), "PENDING", "GOOD", 75)}

InitScrub ==
    \/ Start(DefaultPolicy, Monday0830, ScenarioBQueue)
    \/ Start(DefaultPolicy, Friday1800, FridayQueue)
    \/ Start(TightPolicy, Monday0905, TightQueue)

NextScrub ==
    \/ \E p \in DOMAIN linkedin_posts : approve_webhook(p)
    \/ scrub_schedule_internal
    \/ check_and_publish_posts
    \/ Tick

SpecScrub == InitScrub /\ [][NextScrub]_vars

Scrubbed == call.op = "scrub"

\* the PENDING rows of content item p in a table
PendingOf(table, p) == {r \in Pending(table) : r.post_id = p}

\* rows by id: what became of row r in the table
Kept(table, r) == \E q \in table : q.id = r.id

\* C12: after a scrub every content item has at most one PENDING reservation;
\* of the PENDING reservations an item had, the one scheduled earliest is kept
\* and the others are deleted, so the only reservation of an item always stays.
C12_ScrubDeduplicates ==
    Scrubbed =>
        \A p \in DOMAIN linkedin_posts :
            /\ Cardinality(PendingOf(call.after, p)) <= 1
            /\ PendingOf(call.before, p) # {} =>
                  \E s \in PendingOf(call.before, p) :
                      /\ \A r \in PendingOf(call.before, p) :
                             s.scheduled_for <= r.scheduled_for
                      /\ Kept(call.after, s)
                      /\ \A r \in PendingOf(call.before, p) \ {s} :
                             ~Kept(call.after, r)

\* an item had two PENDING reservations and the one inserted last was the
\* earlier one: it survives, the older row is gone
C12_Witness ==
    /\ Scrubbed
    /\ \E p \in DOMAIN linkedin_posts :
         \E r, s \in PendingOf(call.before, p) :
            /\ r.id < s.id /\ s.scheduled_for < r.scheduled_for
            /\ Kept(call.after, s) /\ ~Kept(call.after, r)

\* the row as it was before the scrub
Before(r) == CHOOSE q \in call.before : q.id = r.id

\* C13: after a scrub a PENDING reservation of better priority rank is never
\* scheduled later than one of worse rank, and two of equal rank keep the time
\* order they had before.
C13_ScrubPriorityOrder ==
    Scrubbed =>
        \A a, b \in Pending(call.after) :
            /\ priority_order(a.priority_level) < priority_order(b.priority_level)
                  => a.scheduled_for <= b.scheduled_for
            /\ (/\ priority_order(a.priority_level) = priority_order(b.priority_level)
                /\ Before(a).scheduled_for < Before(b).scheduled_for)
                  => a.scheduled_for < b.scheduled_for

\* the scrub moved an URGENT reservation in front of one that was ahead of it
C13_Witness ==
    /\ Scrubbed
    /\ \E a, b \in Pending(call.after) :
         /\ priority_order(a.priority_level) < priority_order(b.priority_level)
         /\ Before(a).scheduled_for > Before(b).scheduled_for
         /\ a.scheduled_for < b.scheduled_for
    /\ \E a, b \in Pending(call.after) :
         /\ a.id # b.id
         /\ priority_order(a.priority_level) = priority_order(b.priority_level)

\* C14: a scrub that finds the table as the previous scrub left it changes
\* nothing, however much later it runs.
C14_ScrubIdempotent ==
    (Scrubbed /\ call.again) => call.after = call.before

\* C15: after a scrub every PENDING reservation lies in the posting-hour
\* window and, under weekdays-only, on Monday to Friday.
C15_ScrubOnCalendar ==
    (Scrubbed /\ ~enable_jitter) =>
        \A r \in Pending(call.after) :
            InWindow(r.scheduled_for) /\ AllowedDay(r.scheduled_for)

\* the number of times min_spacing_minutes apart that fit into one day's window
SlotsPerDay ==
    ((posting_hour_end - posting_hour_start) * MinutesPerHour - 1)
        \div min_spacing_minutes + 1

JointlyConsistent ==
    /\ posting_hour_start < posting_hour_end
    /\ min_spacing_minutes > 0
    /\ SlotsPerDay <= daily_post_limit

\* the PENDING and PUBLISHED rows of a table on date d
CountedOn(table, d) ==
    {r \in table : r.status \in {"PENDING", "PUBLISHED"} /\ date(r.scheduled_for) = d}

\* the tight policy with an operator who also moves reservations by hand
InitScrubCap == Start(TightPolicy, Monday0905, TightQueue)

NextScrubCap ==
    \/ \E p \in DOMAIN linkedin_posts : approve_webhook(p)
    \/ scrub_schedule_internal
    \/ check_and_publish_posts
    \/ \E r \in scheduled_posts : \E t \in reschedule_times : reschedule_post(r.id, t)
    \/ Tick

SpecScrubCap == InitScrubCap /\ [][NextScrubCap]_vars

\* C16: when no more than daily_post_limit spaced times fit into one day's
\* window, no date holds more than daily_post_limit PENDING or PUBLISHED
\* reservations after a scrub.
C16_ScrubDailyCap ==
    (Scrubbed /\ JointlyConsistent) =>
        \A r \in call.after :
            Cardinality(CountedOn(call.after, date(r.scheduled_for))) <= daily_post_limit

\* an approval has just completed, through either endpoint
Approved == call.op \in {"approve_webhook", "admin_approve"}

\* C17: when an approval completes, through the admin endpoint or through the
\* e-mail link, the scrub has run after the slot assignment: no content item
\* has two PENDING reservations and a PENDING reservation of better priority
\* rank is never scheduled later than one of worse rank.
C17_ScrubAfterApproval ==
    Approved =>
        /\ \A p \in DOMAIN linkedin_posts :
               Cardinality(PendingOf(call.after, p)) <= 1
        /\ \A a, b \in Pending(call.after) :
               priority_order(a.priority_level) < priority_order(b.priority_level)
                   => a.scheduled_for <= b.scheduled_for

-----------------------------------------------------------------------------
(* the staleness sweep *)

\* config.py 8-51 declares neither threshold (extra settings are allowed): a
\* deployment that wants the sweep has to supply both
WithThresholds(policy, dead, stale) ==
    policy @@ [dead_post_threshold_days |-> dead,
               stale_post_threshold_days |-> stale]

\* both attribute reads at the head of a sweep succeed
HasThresholds ==
    {"dead_post_threshold_days", "stale_post_threshold_days"} \subseteq DOMAIN settings

dead_cutoff(t) == t - Day(settings.dead_post_threshold_days)
stale_cutoff(t) == t - Day(settings.stale_post_threshold_days)

original_post_date(sched_post) == linkedin_posts[sched_post.post_id]

dated_or_not(table) == Pending(table)
\* the rows the loop does not pass over at once
dated(table) == {r \in Pending(table) : original_post_date(r) # None}

never_protected(sched_post) == FALSE
is_protected(sched_post) == sched_post.priority_level = "URGENT"

is_dead(sched_post, t) == original_post_date(sched_post) < dead_cutoff(t)

is_stale(sched_post, t) == original_post_date(sched_post) < stale_cutoff(t)

\* the timer's loop: what it deletes and what it counts as stale
removed_posts(table, t) ==
    {r \in dated(table) : ~is_protected(r) /\ is_dead(r, t)}

stale_count(table, t) ==
    {r \in dated(table) : ~is_protected(r) /\ ~is_dead(r, t) /\ is_stale(r, t)}

\* the endpoint's loop: the three lists of its report
protected_posts(table) == {r \in dated(table) : is_protected(r)}

dead_posts(table, t) ==
    {r \in dated(table) \ protected_posts(table) : is_dead(r, t)}

stale_posts(table, t) ==
    {r \in (dated(table) \ protected_posts(table)) \ dead_posts(table, t) :
        is_stale(r, t)}

deleted_regardless(preview, dead) == dead
deleted_by(preview, dead) == IF preview THEN {} ELSE dead

ids(rows) == {r.id : r \in rows}

\* what a sweep leaves behind; raised: it ended in an exception
SweepReport(by, preview, raised, t, before, after, dead, stale) ==
    [op |-> "sweep", by |-> by, preview |-> preview, raised |-> raised,
     at |-> t, before |-> before, after |-> after,
     dead |-> ids(dead), stale |-> ids(stale)]

\* the table after the timer's sweep at time t
swept_by_timer(table, t) ==
    IF HasThresholds THEN table \ removed_posts(table, t) ELSE table

\* the table after POST /admin/cleanup-schedule at time t
swept_by_admin(table, t, preview) ==
    IF HasThresholds THEN table \ deleted_by(preview, dead_posts(table, t))
    ELSE table

\* the job of 3 AM
cleanup_stale_schedule ==
    /\ ops < MaxOps
    /\ ops' = ops + 1
    /\ hour(now) = 3 /\ minute(now) = 0
    /\ scheduled_posts' = swept_by_timer(scheduled_posts, now)
    /\ call' = IF HasThresholds
               THEN SweepReport("timer", FALSE, FALSE, now, scheduled_posts,
                                scheduled_posts',
                                removed_posts(scheduled_posts, now),
                                stale_count(scheduled_posts, now))
               ELSE SweepReport("timer", FALSE, TRUE, now, scheduled_posts,
                                scheduled_posts', {}, {})
    /\ UNCHANGED <<chrome, posting, settings, now, linkedin_posts, approval_requests, next_id,
                   session, unseen, classified, ticks>>

admin_cleanup_schedule(preview) ==
    /\ ops < MaxOps
    /\ ops' = ops + 1
    /\ scheduled_posts' = swept_by_admin(scheduled_posts, now, preview)
    /\ call' = IF HasThresholds
               THEN SweepReport("admin", preview, FALSE, now, scheduled_posts,
                                scheduled_posts',
                                dead_posts(scheduled_posts, now),
                                stale_posts(scheduled_posts, now))
               ELSE SweepReport("admin", preview, TRUE, now, scheduled_posts,
                                scheduled_posts', {}, {})
    /\ UNCHANGED <<chrome, posting, settings, now, linkedin_posts, approval_requests, next_id,
                   session, unseen, classified, ticks>>

\* dead after 7 days, stale after 2, as the sweep's own description has it
SweepPolicy == WithThresholds(DefaultPolicy, 7, 2)

Monday0300 == At(21, 3, 0)

\* content ages at the start: around both thresholds, and Scenario E's 8 days
SweepAges ==
    {Day(8), Day(7) + 1, Day(7), Day(7) - 1, Day(2) + 1, Day(2), Day(2) - 1,
     Day(1)}

\* post 1 is Scenario E's URGENT item of 10 days, post 4 has no date
SweepPosts(t, a, b) ==
    (1 :> (t - Day(10))) @@ (2 :> (t - a)) @@ (3 :> (t - b)) @@ (4 :> None)

\* four reservations waiting on Monday and Tuesday, one that has gone out
SweepQueue ==
    {Row(1, 1, At(21, 9, 0), "PENDING", "URGENT", 100),
     Row(2, 2, At(21, 10, 30), "PENDING", "OK", 50),
     Row(3, 3, At(21, 12, 0), "PENDING", "STALE", 25),
     Row(4, 4, At(22, 9, 0), "PENDING", "OK", 50),
     Row(5, 2, At(18, 9, 0), "PUBLISHED", "GOOD", 75)}

InitSweep ==
    \E policy \in {DefaultPolicy, SweepPolicy} :
        \E a, b \in SweepAges :
            StartWith(policy, Monday0300, SweepQueue,
                      SweepPosts(Monday0300, a, b))

NextSweep ==
    \/ cleanup_stale_schedule
    \/ \E preview \in BOOLEAN : admin_cleanup_schedule(preview)
    \/ Tick

SpecSweep == InitSweep /\ [][NextSweep]_vars

Swept == call.op = "sweep"

\* the age of a reservation's content when the sweep read the clock
AgeAt(r) == call.at - original_post_date(r)

Judged == {r \in dated(call.before) : r.priority_level # "URGENT"}

\* C19: a sweep that completes lists as dead, and so deletes, exactly the
\* reservations aged at least the dead threshold, and reports as stale exactly
\* the others aged at least the stale threshold; content aged exactly the dead
\* threshold is deleted.
C19_SweepThresholdsInclusive ==
    (Swept /\ ~call.raised) =>
        \A r \in Judged :
            /\ r.id \in call.dead
                   <=> AgeAt(r) >= Day(settings.dead_post_threshold_days)
            /\ r.id \in call.stale
                   <=> (/\ AgeAt(r) < Day(settings.dead_post_threshold_days)
                        /\ AgeAt(r) >= Day(settings.stale_post_threshold_days))

\* C20: a preview leaves the table as it found it and lists exactly the
\* reservations the deleting sweep, on demand or from the timer, removes from
\* the same table at the same time.
C20_PreviewSameRemovals ==
    (Swept /\ call.preview) =>
        /\ call.after = call.before
        /\ call.dead = ids(call.before \ swept_by_admin(call.before, call.at, FALSE))
        /\ call.dead = ids(call.before \ swept_by_timer(call.before, call.at))

C20_Witness ==
    /\ Swept /\ call.preview /\ ~call.raised
    /\ call.dead # {}
    /\ call.after = call.before
    /\ swept_by_admin(call.before, call.at, FALSE) # call.before

\* C21: a sweep only deletes: every reservation left after it is a row of the
\* table before it with all fields as they were, and every reservation it
\* deleted was PENDING and has content with a source timestamp.
C21_SweepOnlyDeletes ==
    Swept =>
        /\ call.after \subseteq call.before
        /\ \A r \in call.before \ call.after :
               /\ r.status = "PENDING"
               /\ original_post_date(r) # None

C21_Witness ==
    /\ Swept /\ call.by = "timer"
    /\ call.before \ call.after # {}
    /\ \E r \in call.after : r.status = "PENDING" /\ original_post_date(r) = None
    /\ \E r \in call.after :
           /\ r.status = "PUBLISHED"
           /\ AgeAt(r) > Day(settings.dead_post_threshold_days)

-----------------------------------------------------------------------------
(* publish attempts *)

InitPublish ==
    \/ Start(DefaultPolicy, Monday0830, ScenarioBQueue)
    \/ Start(DefaultPolicy, Friday1800, FridayQueue)

NextPublish ==
    \/ \E p \in DOMAIN linkedin_posts : approve_webhook(p)
    \/ check_and_publish_posts
    \/ \E r \in scheduled_posts : admin_post_now(r.id)
    \/ Tick

SpecPublish == InitPublish /\ [][NextPublish]_vars

PublishRun == call.op = "publish"

\* the row with r's id after the run
After(r) == CHOOSE q \in call.after : q.id = r.id

\* the rows a run attempted, as they were before it
Attempted == {r \in call.before : r.id \in call.attempted}

\* C22: a publish attempt on a PENDING reservation ends in one of three ways:
\* PUBLISHED with published_at set and retry_count as it was; still PENDING
\* with retry_count one higher and below the ceiling, rescheduled to 30
\* minutes after the attempt, priority fields untouched; or FAILED with
\* retry_count one higher and at the ceiling, scheduled_for as it was.
C22_PublishOutcomes ==
    PublishRun =>
        \A r \in Attempted :
            /\ r.status = "PENDING"
            /\ \E q \in call.after :
                 /\ q.id = r.id
                 /\ q.priority_level = r.priority_level
                 /\ q.priority_score = r.priority_score
                 /\ \/ /\ q.status = "PUBLISHED"
                       /\ q.published_at # None
                       /\ q.retry_count = r.retry_count
                    \/ /\ q.status = "PENDING"
                       /\ q.retry_count = r.retry_count + 1
                       /\ q.retry_count < max_retries
                       /\ q.scheduled_for = call.at + RetryDelayMinutes
                    \/ /\ q.status = "FAILED"
                       /\ q.retry_count = r.retry_count + 1
                       /\ q.retry_count >= max_retries
                       /\ q.scheduled_for = r.scheduled_for

\* C23: retry_count never goes down, a PENDING reservation has retry_count
\* below the ceiling, a FAILED one has it at the ceiling, only PENDING
\* reservations are picked up by the publisher, and no reservation is
\* attempted more than max_retries times.
C23_RetryCeiling ==
    /\ \A r \in scheduled_posts :
           /\ r.status = "PENDING" => r.retry_count < max_retries
           /\ r.status = "FAILED" => r.retry_count >= max_retries
    /\ PublishRun =>
           /\ \A r \in Attempted :
                  r.status = "PENDING" /\ After(r).retry_count >= r.retry_count
           /\ call.attempted # {} => call.run <= max_retries

\* C24: a publish attempt lets no exception escape: every attempt that does
\* not publish leaves retry_count one higher in the table, and a publish check
\* attempts every reservation it found due.
C24_FailuresAbsorbed ==
    PublishRun =>
        /\ ~call.escaped
        /\ call.attempted = call.due
        /\ \A r \in Attempted :
               After(r).status # "PUBLISHED"
                   => After(r).retry_count = r.retry_count + 1

-----------------------------------------------------------------------------
(* manual overrides *)

\* the primary keys an operator may name: those of the table and one that no
\* row has
schedule_ids == {r.id : r \in scheduled_posts} \cup {next_id}

\* a manual override has returned: who served it, what it was asked, and the
\* table as it found and left it
Override(op, via, id, new_time, done) ==
    /\ ops < MaxOps
    /\ ops' = ops + 1
    /\ scheduled_posts' = done.table
    /\ call' = [op |-> op, via |-> via, id |-> id, new_time |-> new_time,
                at |-> now, before |-> scheduled_posts, after |-> done.table,
                error |-> done.error]
    /\ UNCHANGED <<chrome, posting, settings, now, linkedin_posts, approval_requests, next_id,
                   session, unseen, classified, ticks>>

\* main.py 3387-3446, every request
schedule_reschedule(schedule_id, new_time) ==
    Override("reschedule", "endpoint", schedule_id, new_time,
             reschedule_endpoint(scheduled_posts, schedule_id, new_time, now))

\* main.py 3459-3510, every request
schedule_cancel(schedule_id) ==
    Override("cancel", "endpoint", schedule_id, None,
             cancel_endpoint(scheduled_posts, schedule_id))

\* scheduler.py 408-454
PostScheduler_reschedule_post(scheduled_post_id, new_time) ==
    Override("reschedule", "scheduler", scheduled_post_id, new_time,
             reschedule_method(scheduled_posts, scheduled_post_id, new_time))

\* scheduler.py 456-492
PostScheduler_cancel_scheduled_post(scheduled_post_id) ==
    Override("cancel", "scheduler", scheduled_post_id, None,
             cancel_method(scheduled_posts, scheduled_post_id))

InitOverride ==
    \/ Start(DefaultPolicy, Monday0830, ScenarioBQueue)
    \/ Start(DefaultPolicy, Friday1800, FridayQueue)

NextOverride ==
    \/ \E i \in schedule_ids : \E t \in reschedule_times : schedule_reschedule(i, t)
    \/ \E i \in schedule_ids : schedule_cancel(i)
    \/ \E i \in schedule_ids : \E t \in reschedule_times :
          PostScheduler_reschedule_post(i, t)
    \/ \E i \in schedule_ids : PostScheduler_cancel_scheduled_post(i)
    \/ Tick

SpecOverride == InitOverride /\ [][NextOverride]_vars

OverrideRun == call.op \in {"reschedule", "cancel"}

\* the reservation an override named, as it was before
Target == {r \in call.before : r.id = call.id}

\* C25: reschedule and cancel on a PUBLISHED reservation are rejected and
\* leave its status, scheduled_for and published_at as they were; on an
\* unknown id both are rejected as not found and change nothing.
C25_OverridesRejectPublished ==
    OverrideRun =>
        /\ Target = {} => call.error = "not_found" /\ call.after = call.before
        /\ \A r \in Target :
               r.status = "PUBLISHED" =>
                   /\ call.error = "invalid_state"
                   /\ After(r).status = r.status
                   /\ After(r).scheduled_for = r.scheduled_for
                   /\ After(r).published_at = r.published_at

C25_Witness ==
    /\ OverrideRun
    /\ call.via = "endpoint"
    /\ call.op = "reschedule"
    /\ call.new_time > call.at
    /\ \E r \in Target : r.status = "PUBLISHED" /\ r \in call.after
    /\ call.error = "invalid_state"

\* C26: reschedule and cancel, through the scheduler methods and through the
\* endpoints alike, are accepted only for a PENDING reservation; on any other
\* they are rejected (as an invalid state, or for the time asked) and leave
\* status and scheduled_for as they were.
C26_OverridesOnlyPending ==
    OverrideRun =>
        \A r \in Target :
            r.status # "PENDING" =>
                /\ call.error \in {"invalid_state", "invalid_time"}
                /\ After(r).status = r.status
                /\ After(r).scheduled_for = r.scheduled_for

-----------------------------------------------------------------------------
(* assignment for a missing post *)

\* the ids a caller may pass: those of the posts and one that no post has
post_ids == DOMAIN linkedin_posts \cup {0}

InitNotFound ==
    \/ StartWith(DefaultPolicy, Monday0800, {}, UndatedPosts(Monday0800))
    \/ Start(DefaultPolicy, Monday0830, ScenarioBQueue)
    \/ Start(DailyPolicy, Friday2000, {})

NextNotFound ==
    \/ \E p \in post_ids : assign_publish_slot(p)
    \/ Tick

SpecNotFound == InitNotFound /\ [][NextNotFound]_vars

AssignRun == call.op \in {"assign", "assign_raised"}

\* C27: assign_publish_slot for a content id that does not exist raises a
\* not-found error and inserts nothing; for an existing content id it does not
\* raise and inserts exactly one reservation: PENDING, retry_count 0, with the
\* priority fields the classifier computed.
C27_NotFoundOnAssignment ==
    AssignRun =>
        IF call.post_id \notin DOMAIN linkedin_posts
        THEN /\ call.op = "assign_raised"
             /\ call.error = "ValueError"
             /\ call.after = call.before
        ELSE /\ call.op = "assign"
             /\ \E r \in call.after \ call.before :
                  /\ call.after = call.before \cup {r}
                  /\ r.post_id = call.post_id
                  /\ r.status = "PENDING"
                  /\ r.retry_count = 0
                  /\ \E priority \in {_calculate_priority(linkedin_posts[r.post_id],
                                                         call.at)} :
                       /\ r.priority_level = priority.level
                       /\ r.priority_score = priority.priority_score
                       /\ r.post_age = priority.age

-----------------------------------------------------------------------------
(* what counts toward the daily cap *)

PendingRows(rows) == {r \in rows : r.status = "PENDING"}
PublishedRows(rows) == {r \in rows : r.status = "PUBLISHED"}

\* a time the search would accept if only PENDING reservations filled a date
ValidCountingPending(rows, t) ==
    /\ InWindow(t)
    /\ AllowedDay(t)
    /\ Cardinality(OnDate(PendingRows(rows), date(t))) < daily_post_limit
    /\ SpacedAfterPredecessor(rows, t)

-----------------------------------------------------------------------------
(* jitter *)

\* config.py defaults with jitter on, and a jitter of one minute
JitterPolicy == Policy(3, 90, 6, 21, TRUE, TRUE, 15)
SmallJitterPolicy == Policy(3, 90, 6, 21, TRUE, TRUE, 1)

InitJitter ==
    \/ Start(JitterPolicy, Monday0830, ScenarioBQueue)
    \/ Start(SmallJitterPolicy, Monday0800, {})
    \/ Start(DefaultPolicy, Monday0830, ScenarioBQueue)

NextJitter ==
    \/ \E p \in DOMAIN linkedin_posts : assign_publish_slot(p)
    \/ Tick

SpecJitter == InitJitter /\ [][NextJitter]_vars

\* the offset random.randint may return
jitter_bound == IF enable_jitter THEN jitter_minutes ELSE 0

\* the stored time is the accepted time plus an offset within the bound
JitterWithinBound ==
    call.op = "assign" =>
        /\ Abs(call.scheduled_for - call.accepted) <= jitter_bound
        /\ \E r \in call.after \ call.before :
               r.id = call.id /\ r.scheduled_for = call.scheduled_for

\* C29: the stored scheduled_for is the accepted slot plus a whole number of
\* minutes between -jitter_minutes and +jitter_minutes (the accepted slot
\* itself without jitter), and the new reservation is at least
\* min_spacing_minutes - jitter_minutes after the latest active reservation
\* before it.
C29_JitterBound ==
    /\ JitterWithinBound
    /\ (call.op = "assign" /\ CeilingNotReached) =>
           \A r \in Earlier(call.read, call.scheduled_for) :
               call.scheduled_for - r.scheduled_for
                   >= min_spacing_minutes - jitter_bound

-----------------------------------------------------------------------------
(* the Chrome lock *)

\* asyncio.Lock.acquire returns without suspending when the lock is free and
\* no task is queued for it
lock_free_whoever_waits(c) == ~c.locked
lock_free(c) == ~c.locked /\ c.queue = <<>>

\* chrome_lock.py 68-72: the status the task writes once it has the lock
locked_status(task) == ChromeLockStatus(TRUE, operation(task), task)

\* chrome_lock.py 56-76: ChromeLockManager.acquire, up to its return when the
\* lock is free and up to the await of chrome_lock.py 66 otherwise
acquire(task) ==
    /\ chrome.pc[task] = "idle"
    /\ IF lock_free(chrome)
       THEN chrome' = [chrome EXCEPT !.locked = TRUE,
                                     !.status = locked_status(task),
                                     !.pc[task] = "holding"]
       ELSE chrome' = [chrome EXCEPT
                          !.waiters = @ + 1,
                          !.queue = Append(@, [task |-> task, woken |-> FALSE]),
                          !.pc[task] = "waiting"]
    /\ UNCHANGED <<posting, settings, now, linkedin_posts, approval_requests,
                   scheduled_posts, next_id, call, session, unseen, classified,
                   ticks, ops>>

\* the queue without the future of the task
without(queue, task) == SelectSeq(queue, LAMBDA w : w.task # task)

\* chrome_lock.py 66-76: the task resumes after the await of acquire: the lock
\* was handed to it, it takes it and writes the status
acquire_resumed(task) ==
    /\ chrome.pc[task] = "waiting"
    /\ \E i \in DOMAIN chrome.queue :
          chrome.queue[i].task = task /\ chrome.queue[i].woken
    /\ chrome' = [chrome EXCEPT !.locked = TRUE,
                                !.queue = without(@, task),
                                !.status = locked_status(task),
                                !.waiters = @ - 1,
                                !.pc[task] = "holding"]
    /\ UNCHANGED <<posting, settings, now, linkedin_posts, approval_requests,
                   scheduled_posts, next_id, call, session, unseen, classified,
                   ticks, ops>>

\* asyncio.Lock.release: the first task of the queue is woken
wake_up_first(queue) ==
    IF queue = <<>> THEN queue ELSE [queue EXCEPT ![1].woken = TRUE]

\* chrome_lock.py 78-92: ChromeLockManager.release, called in the finally of
\* the task that acquired (main.py 295, 539, 1367, 1540); nothing happens when
\* the lock is not locked
\* mutant: the task ends without giving the lock back
never_released(c, task) == [c EXCEPT !.pc[task] = "idle"]

released(c, task) ==
    IF c.locked
    THEN [c EXCEPT !.locked = FALSE,
                   !.status = ChromeLockStatus(FALSE, "None", "None"),
                   !.queue = wake_up_first(@),
                   !.pc[task] = "idle"]
    ELSE [c EXCEPT !.pc[task] = "idle"]

release(task) ==
    /\ chrome.pc[task] = "holding"
    /\ chrome' = released(chrome, task)
    /\ UNCHANGED <<posting, settings, now, linkedin_posts, approval_requests,
                   scheduled_posts, next_id, call, session, unseen, classified,
                   ticks, ops>>

InitChrome == Start(DefaultPolicy, Monday0830, ScenarioBQueue)

NextChrome ==
    \/ \E task \in ChromeTasks : acquire(task)
    \/ \E task \in ChromeTasks : acquire_resumed(task)
    \/ \E task \in ChromeTasks : release(task)

SpecChrome == InitChrome /\ [][NextChrome]_vars

\* the tasks between a completed acquire and their release
Holders == {task \in ChromeTasks : chrome.pc[task] = "holding"}

\* C30: at most one task is between a completed acquire and its release, and
\* at every await point status.is_locked is true exactly when the lock is
\* held, with operation and locked_by naming the task that holds it.
C30_ChromeLockExclusive ==
    /\ Cardinality(Holders) <= 1
    /\ chrome.status.is_locked <=> Holders # {}
    /\ chrome.status.is_locked <=> chrome.locked
    /\ \A task \in Holders : chrome.status = locked_status(task)
    /\ Holders = {} => chrome.status = ChromeLockStatus(FALSE, "None", "None")

\* a task holds the lock for scraping while two others are suspended in acquire
C30_Witness ==
    /\ \E task \in Holders :
          /\ chrome.status.locked_by = task
          /\ chrome.status.operation = "scraping"
    /\ Len(chrome.queue) >= 2
    /\ chrome.waiters = Len(chrome.queue)

----------------------------------------------------------------------------
(* spacing to the predecessor *)

\* the latest row of the rows read that lies strictly before t
Predecessor(rows, t) == _get_last_scheduled_time_before(rows, t)

\* the accepted slot is the normalized seed, the start of a posting day, or
\* its predecessor plus exactly min_spacing_minutes
PushedByShortfall(rows, seed, t) ==
    \/ t = _normalize_to_posting_hours(seed)
    \/ hour(t) = posting_hour_start /\ minute(t) = 0
    \/ /\ Predecessor(rows, t) # None
       /\ t = Predecessor(rows, t) + min_spacing_minutes

\* C31: with jitter off and the ceiling not reached, the accepted slot is
\* min_spacing_minutes or more after the latest row read that lies strictly
\* before it; a candidate that was too close was pushed by exactly the
\* shortfall, and the pushed candidate passed the hour, weekday and cap checks
\* again.
C31_SpacingToPredecessor ==
    (AssignReturned /\ CeilingNotReached) =>
        /\ Predecessor(call.read, call.accepted) # None =>
               call.accepted - Predecessor(call.read, call.accepted)
                   >= min_spacing_minutes
        /\ PushedByShortfall(call.read, call.seed, call.accepted)
        /\ InWindow(call.accepted)
        /\ AllowedDay(call.accepted)
        /\ _count_posts_on_day(call.read, date(call.accepted)) < daily_post_limit

\* the seed was too close to its predecessor and the slot is the predecessor
\* plus min_spacing_minutes, later the same day
C31_Witness ==
    /\ AssignReturned /\ CeilingNotReached
    /\ Predecessor(call.read, call.seed) # None
    /\ call.seed - Predecessor(call.read, call.seed) < min_spacing_minutes
    /\ call.accepted > call.seed
    /\ date(call.accepted) = date(call.seed)
    /\ call.accepted = Predecessor(call.read, call.accepted) + min_spacing_minutes

----------------------------------------------------------------------------
(* the scrub: spacing *)

\* C32: after a scrub any two distinct PENDING reservations are
\* min_spacing_minutes or more apart, and none of them lies before the time at
\* which the scrub ran.
C32_ScrubSpacingPending ==
    Scrubbed =>
        /\ PairwiseSpaced(Pending(call.after))
        /\ \A r \in Pending(call.after) : r.scheduled_for >= call.at

\* the scrub found two PENDING reservations closer than min_spacing_minutes,
\* one of them in the past, and left more than one
C32_Witness ==
    /\ Scrubbed
    /\ ~PairwiseSpaced(Pending(call.before))
    /\ \E r \in Pending(call.before) : r.scheduled_for < call.at
    /\ Cardinality(Pending(call.after)) >= 2

\* the PUBLISHED rows of a table scheduled within the 7 days before t
RecentlyPublished(table, t) ==
    {r \in table : r.status = "PUBLISHED" /\ r.scheduled_for >= t - Day(RetentionDays)}

\* C33: after a scrub every PENDING reservation is min_spacing_minutes or more
\* away from every reservation PUBLISHED within the last 7 days.
C33_ScrubSpacingPublished ==
    Scrubbed =>
        \A r \in Pending(call.after) :
            \A q \in RecentlyPublished(call.after, call.at) :
                Abs(r.scheduled_for - q.scheduled_for) >= min_spacing_minutes

----------------------------------------------------------------------------
(* the periodic publisher *)

PeriodicRun == call.op = "publish" /\ call.by = "check_and_publish_posts"

\* the row with this id as the run found it
Found(id) == CHOOSE r \in call.before : r.id = id

\* C34: the periodic publish check attempts only reservations that were
\* PENDING and due when it read the table, in ascending order of
\* scheduled_for, each at most once, and leaves every other reservation as it
\* was.
C34_NoEarlyPublication ==
    PeriodicRun =>
        /\ \A r \in Attempted : r.status = "PENDING" /\ r.scheduled_for <= call.at
        /\ \A i, k \in DOMAIN call.order :
               i < k => /\ call.order[i] # call.order[k]
                        /\ Found(call.order[i]).scheduled_for
                               <= Found(call.order[k]).scheduled_for
        /\ \A r \in call.before \ Attempted :
               /\ r \in call.after
               /\ (r.status = "PENDING" /\ r.scheduled_for <= call.at) =>
                      \A a \in Attempted : a.scheduled_for <= r.scheduled_for

\* the check found a reservation due and one that was not: it attempted the
\* first and left the second alone
C34_Witness ==
    /\ PeriodicRun
    /\ call.attempted # {}
    /\ \E r \in Pending(call.before) :
         r.scheduled_for > call.at /\ r \in call.after /\ r.id \notin call.attempted

----------------------------------------------------------------------------
(* publishing step by step, under the Chrome lock *)

\* main.py 1297-1307: the reservation a post-now request names
scheduled_post_id(task) == IF task = "admin_post_now(1)" THEN 1 ELSE 2

\* the locals of a publishing task: where it is, the rows it read and the one
\* it is at; gone notes that this row was no longer PENDING in the table when
\* its attempt started
Locals(pc, due, i) == [pc |-> pc, due |-> due, i |-> i, gone |-> FALSE]

\* the session writes the attributes it changed on its copy of the row to the
\* row of that primary key, whatever other sessions have stored there since
flush(table, copy, changed) ==
    LET current == scalar_one_or_none(table, copy.id)
    IN IF current = {} THEN table
       ELSE (table \ current)
              \cup {[f \in DOMAIN r |->
                        IF changed[f] # copy[f] THEN changed[f] ELSE r[f]] :
                    r \in current}

\* main.py 219-248: the periodic check, holding the lock, reads the clock and
\* the due reservations; with none due it returns
check_due_posts ==
    LET task == "check_and_publish_posts"
    IN /\ chrome.pc[task] = "holding"
       /\ posting.task[task].pc = "start"
       /\ IF due_posts(scheduled_posts, now) = {}
          THEN posting' = [posting EXCEPT !.task[task] = Locals("done", <<>>, 0)]
          ELSE \E o \in ordered_by_scheduled_for(due_posts(scheduled_posts, now)) :
                  posting' = [posting EXCEPT !.task[task] = Locals("loop", o, 1)]
       /\ UNCHANGED <<chrome, settings, now, linkedin_posts, approval_requests,
                      scheduled_posts, next_id, call, session, unseen, classified,
                      ticks, ops>>

\* main.py 1324: scheduled_post.status != ScheduledPostStatus.PENDING
not_pending(scheduled_post) == scheduled_post.status # "PENDING"

\* main.py 1309-1332: post-now, holding the lock, reads the reservation; HTTP
\* 404 when there is none, HTTP 400 when it is not PENDING
post_now_get(task) ==
    /\ task \in PostingTasks \ {"check_and_publish_posts"}
    /\ chrome.pc[task] = "holding"
    /\ posting.task[task].pc = "start"
    /\ LET found == scalar_one_or_none(scheduled_posts, scheduled_post_id(task))
       IN IF found = {} \/ \E r \in found : not_pending(r)
          THEN posting' = [posting EXCEPT !.task[task] = Locals("done", <<>>, 0)]
          ELSE \E r \in found :
                  posting' = [posting EXCEPT !.task[task] = Locals("loop", <<r>>, 1)]
    /\ UNCHANGED <<chrome, settings, now, linkedin_posts, approval_requests,
                   scheduled_posts, next_id, call, session, unseen, classified,
                   ticks, ops>>

\* main.py 78-102: the attempt on the next reservation of the list starts and
\* waits for the post and the variant to be read
publish_begin(task) ==
    /\ chrome.pc[task] = "holding"
    /\ posting.task[task].pc = "loop"
    /\ LET my == posting.task[task]
       IN posting' =
            [posting EXCEPT
               !.task[task].pc = "attempting",
               !.task[task].gone =
                   \A r \in scalar_one_or_none(scheduled_posts, my.due[my.i].id) :
                       r.status # "PENDING"]
    /\ UNCHANGED <<chrome, settings, now, linkedin_posts, approval_requests,
                   scheduled_posts, next_id, call, session, unseen, classified,
                   ticks, ops>>

\* main.py 104-198, 262-272, 1338-1364: the attempt ends. An exception that
\* leaves it ends the loop with nothing committed; otherwise what the attempt
\* changed on the task's copy of the row is committed and the loop goes on
publish_end(task) ==
    /\ chrome.pc[task] = "holding"
    /\ posting.task[task].pc = "attempting"
    /\ LET my == posting.task[task]
           copy == my.due[my.i]
           result == _publish_single_scheduled_post(copy)
       IN IF result.escaped
          THEN /\ posting' = [posting EXCEPT !.task[task].pc = "done"]
               /\ UNCHANGED scheduled_posts
          ELSE /\ scheduled_posts' = flush(scheduled_posts, copy, result.row)
               /\ posting' =
                     [posting EXCEPT
                        !.task[task] =
                            Locals(IF my.i < Len(my.due) THEN "loop" ELSE "done",
                                   my.due, my.i + 1),
                        !.reposted[copy.id] =
                            IF result.row.status = "PUBLISHED" THEN @ + 1 ELSE @]
    /\ UNCHANGED <<chrome, settings, now, linkedin_posts, approval_requests,
                   next_id, call, session, unseen, classified, ticks, ops>>

\* main.py 293-295, 1365-1367: finally: chrome_lock.release()
posting_release(task) ==
    /\ task \in PostingTasks
    /\ chrome.pc[task] = "holding"
    /\ posting.task[task].pc = "done"
    /\ chrome' = released(chrome, task)
    /\ posting' = [posting EXCEPT !.task[task] = Locals("start", <<>>, 0)]
    /\ UNCHANGED <<settings, now, linkedin_posts, approval_requests,
                   scheduled_posts, next_id, call, session, unseen, classified,
                   ticks, ops>>

\* the timer's task
Check == "check_and_publish_posts"

\* nothing intervenes: approvals arrive, the clock advances, and the timer
\* (main.py 688-694, every 5 minutes) starts the publish check again and again
NextPublishAlone ==
    \/ \E p \in DOMAIN linkedin_posts : approve_webhook(p)
    \/ Tick
    \/ acquire(Check)
    \/ check_due_posts
    \/ publish_begin(Check)
    \/ publish_end(Check)
    \/ posting_release(Check)

\* the timer fires, and the event loop runs the task to its end
SpecPublishAlone ==
    /\ InitPublish
    /\ [][NextPublishAlone]_vars
    /\ WF_vars(acquire(Check))
    /\ WF_vars(check_due_posts)
    /\ WF_vars(publish_begin(Check))
    /\ WF_vars(publish_end(Check))
    /\ WF_vars(posting_release(Check))

DueNow(id) ==
    \E r \in Pending(scheduled_posts) : r.id = id /\ r.scheduled_for <= now

Settled(id) ==
    \E r \in scheduled_posts : r.id = id /\ r.status \in {"PUBLISHED", "FAILED"}

\* C35: with the publish check running again and again and nothing else
\* touching the table, every reservation that is PENDING and due eventually
\* becomes PUBLISHED or FAILED.
C35_DueEventuallySettled ==
    \A id \in 1..MaxScheduled : DueNow(id) ~> Settled(id)

\* dead after 2 days, stale after 1
QuickSweepPolicy == WithThresholds(DefaultPolicy, 2, 1)

Monday1105 == At(7, 11, 5)

\* Monday 11:05: the reservations of 09:30 and 11:00 are due
InitPosting == Start(QuickSweepPolicy, Monday1105, ScenarioBQueue)

Scraper == "scheduled_scrape_and_process"

NextPosting ==
    \/ \E task \in PostingTasks : acquire(task)
    \/ \E task \in PostingTasks : acquire_resumed(task)
    \/ check_due_posts
    \/ \E task \in PostingTasks : post_now_get(task)
    \/ \E task \in PostingTasks : publish_begin(task)
    \/ \E task \in PostingTasks : publish_end(task)
    \/ \E task \in PostingTasks : posting_release(task)
    \/ \E id \in schedule_ids : schedule_cancel(id)
    \/ \E id \in schedule_ids : \E t \in reschedule_times : schedule_reschedule(id, t)
    \/ scrub_schedule_internal
    \/ admin_cleanup_schedule(FALSE)

SpecPosting == InitPosting /\ [][NextPosting]_vars

\* the row of this id in a table, if it has one
RowOf(table, id) == scalar_one_or_none(table, id)

\* a row that is PUBLISHED is in the next state as it is now
PublishedIsFinal ==
    \A r \in scheduled_posts :
        r.status = "PUBLISHED" =>
            \E q \in RowOf(scheduled_posts', r.id) :
                q.status = "PUBLISHED" /\ q.scheduled_for = r.scheduled_for

\* C36: no reservation is reposted more than once, a reservation becomes
\* PUBLISHED only from PENDING, and no step of the publish check, post-now,
\* scrub, sweep, reschedule or cancel changes the status or the scheduled_for
\* of a PUBLISHED reservation.
C36_PublishedOnceAndFinal ==
    [][/\ \A id \in DOMAIN posting.reposted : posting.reposted'[id] <= 1
       /\ PublishedIsFinal
       /\ \A q \in scheduled_posts' :
              (q.status = "PUBLISHED" /\ q \notin scheduled_posts) =>
                  \E r \in RowOf(scheduled_posts, q.id) : r.status = "PENDING"]_vars

\* post-now for the PUBLISHED reservation 1 was refused while the periodic
\* check waited for the lock, after a reschedule of that reservation had been
\* refused too
C36_Witness ==
    /\ posting.task["admin_post_now(1)"].pc = "done"
    /\ chrome.pc["check_and_publish_posts"] = "waiting"
    /\ call.op = "reschedule" /\ call.id = 1 /\ call.error = "invalid_state"
    /\ \E r \in RowOf(scheduled_posts, 1) : r.status = "PUBLISHED"

----------------------------------------------------------------------------
(* approving again what is scheduled or has gone out *)

\* Scenario B's queue: content item 1 has gone out, 2 and 3 are scheduled
InitRepublish == Start(DefaultPolicy, Monday0830, ScenarioBQueue)

NextRepublish ==
    \/ \E p \in DOMAIN linkedin_posts : admin_approve_variant(p)
    \/ \E p \in DOMAIN linkedin_posts : approve_webhook(p)
    \/ scrub_schedule_internal
    \/ check_and_publish_posts
    \/ Tick

SpecRepublish == InitRepublish /\ [][NextRepublish]_vars

----------------------------------------------------------------------------
(* cancelling what the publisher has already read *)

\* the row a task is attempting
Attempting(task) == posting.task[task].due[posting.task[task].i]

\* tasks whose attempt on the row of this id was under way before the row
\* stopped being PENDING
PickedUpInTime(id) ==
    {task \in PostingTasks :
        /\ posting.task[task].pc = "attempting"
        /\ Attempting(task).id = id
        /\ ~posting.task[task].gone}

----------------------------------------------------------------------------
(* the Chrome lock is given back *)

\* Monday 08:30, nothing due yet, and Monday 11:05 with two reservations due
InitLockBack ==
    \/ Start(DefaultPolicy, Monday0830, ScenarioBQueue)
    \/ Start(DefaultPolicy, Monday1105, ScenarioBQueue)

NextLockBack ==
    \/ \E task \in PostingTasks \cup {Scraper} : acquire(task)
    \/ \E task \in PostingTasks \cup {Scraper} : acquire_resumed(task)
    \/ release(Scraper)
    \/ check_due_posts
    \/ \E task \in PostingTasks : post_now_get(task)
    \/ \E task \in PostingTasks : publish_begin(task)
    \/ \E task \in PostingTasks : publish_end(task)
    \/ \E task \in PostingTasks : posting_release(task)
    \/ \E id \in schedule_ids : schedule_cancel(id)

\* the event loop runs every task that is ready to run: a task that was
\* handed the lock resumes, and a task that holds it goes on to its finally
SpecLockBack ==
    /\ InitLockBack
    /\ [][NextLockBack]_vars
    /\ \A task \in PostingTasks \cup {Scraper} : WF_vars(acquire_resumed(task))
    /\ WF_vars(release(Scraper))
    /\ WF_vars(check_due_posts)
    /\ \A task \in PostingTasks :
          /\ WF_vars(post_now_get(task))
          /\ WF_vars(publish_begin(task))
          /\ WF_vars(publish_end(task))
          /\ WF_vars(posting_release(task))

\* the tasks suspended in acquire
Waiting == {task \in ChromeTasks : chrome.pc[task] = "waiting"}

\* release on a lock that is not locked leaves lock, status, queue and
\* waiters as they are
ReleaseUnlockedIsNoOp ==
    ~chrome.locked =>
        \A task \in ChromeTasks :
            released(chrome, task) = [chrome EXCEPT !.pc[task] = "idle"]

\* C39: a publishing task that holds the Chrome lock releases it, whichever
\* way its run ends, and a task waiting in acquire is eventually granted the
\* lock; release on a lock that is not held changes nothing; waiters_count is
\* never negative and is the number of tasks waiting, 0 when there is none.
C39_LockGivenBack ==
    /\ [](chrome.waiters >= 0 /\ chrome.waiters = Cardinality(Waiting))
    /\ []ReleaseUnlockedIsNoOp
    /\ \A task \in PostingTasks :
          (chrome.pc[task] = "holding") ~> (chrome.pc[task] = "idle")
    /\ \A task \in PostingTasks \cup {Scraper} :
          (chrome.pc[task] = "waiting") ~> (chrome.pc[task] = "holding")

\* the periodic check, whose attempt ended with an exception, has released
\* the lock, and the lock was handed to the post-now request that waited
C39_Witness ==
    /\ chrome.pc["check_and_publish_posts"] = "idle"
    /\ ~chrome.locked
    /\ chrome.queue # <<>>
    /\ chrome.queue[1].task = "admin_post_now(2)" /\ chrome.queue[1].woken
    /\ chrome.waiters = Len(chrome.queue)

----------------------------------------------------------------------------
(* spacing of what has gone out *)

\* the reservations a run turned PUBLISHED
PublishedBy == {r \in Attempted : After(r).status = "PUBLISHED"}

====
